---- MODULE Spec2Model ----
(***************************************************************************)
(* Model of build.py of typst-iso-7000: main, process_wikimedia and        *)
(* process_svg.                                                            *)
(*                                                                         *)
(* Strings whose content the code inspects (attribute values, ObjectName,  *)
(* reference ids) are tuples of one-character strings, so that substring   *)
(* tests, the reference regex, float() and the f-string formatting are     *)
(* computed character by character.                                        *)
(*                                                                         *)
(* An XML tree is a record [n, node, par]: elements and comments are       *)
(* numbered 0..n in document order, 0 is the root, node[i] holds what the  *)
(* code reads of node i and par[i] is its parent (NoParent for the root    *)
(* and for a node after parent.remove(node)), as lxml's getparent().       *)
(***************************************************************************)
EXTENDS Integers, Sequences, FiniteSets

VARIABLES pages, force, raw, processed, pc, pidx, symbols, skipped, symlist,
          sidx, tree, log, written

vars == <<pages, force, raw, processed, pc, pidx, symbols, skipped, symlist,
          sidx, tree, log, written>>

(***************************************************************************)
(* Bounds of the model.                                                    *)
(***************************************************************************)
MaxNodes == 3

MaxPages == 3

MaxBatch == 2

(***************************************************************************)
(* Characters and strings.                                                 *)
(***************************************************************************)
Digits == {"0", "1", "2", "3", "4", "5", "6", "7", "8", "9"}

\* None, as returned by dict.get / Element.get for a missing key.  It is a
\* tuple no string of the model equals (strings hold single characters).
None == <<"None">>

EmptyStr == << >>

\* Python truthiness of an Optional[str]: None and "" are falsy.
Truthy(s) == s # None /\ s # EmptyStr

\* XPath contains(@attr, sub): an absent attribute is the empty string.
Contains(s, sub) ==
    /\ s # None
    /\ \E i \in 0..(Len(s) - Len(sub)) : SubSeq(s, i + 1, i + Len(sub)) = sub

Gray == <<"#", "9", "9", "9">>

SvgNs == "http://www.w3.org/2000/svg"

\* QName(elem).namespace of an element in no namespace
NoNs == "(none)"

InkscapeNs == "http://www.inkscape.org/namespaces/inkscape"

TenMm == <<"1", "0", "m", "m">>

NoParent == -1

(***************************************************************************)
(* Tree queries (the XPath node sets of process_svg).                      *)
(***************************************************************************)
RECURSIVE InTree(_, _)
\* node i is the root or a descendant of the root
InTree(t, i) ==
    IF i = 0 THEN TRUE
    ELSE IF t.par[i] = NoParent THEN FALSE
    ELSE InTree(t, t.par[i])

IsElem(t, i) == t.node[i].kind = "elem"

\* .//* : the element descendants of the root
Descendants(t) == {i \in 1..t.n : InTree(t, i) /\ IsElem(t, i)}

\* the element children of node i
ElemChildren(t, i) == {j \in 1..t.n : t.par[j] = i /\ IsElem(t, j)}

\* parent.remove(elem) for every elem of S
RemoveAll(t, S) ==
    [t EXCEPT !.par = [i \in 0..t.n |-> IF i \in S THEN NoParent ELSE t.par[i]]]

\* a set of node numbers as a list in document order
RECURSIVE DocOrder(_)
DocOrder(S) ==
    IF S = {} THEN << >>
    ELSE LET m == CHOOSE x \in S : \A y \in S : x <= y
         IN <<m>> \o DocOrder(S \ {m})

(***************************************************************************)
(* Structural filter of process_svg, one operator per statement group.     *)
(***************************************************************************)
\* etree.strip_elements(tree, etree.Comment, with_tail=False)
StripComments(t) ==
    RemoveAll(t, {i \in 1..t.n : InTree(t, i) /\ t.node[i].kind = "comment"})

\* the test of the namespace walk: not the SVG namespace, or a defs
Unwanted(nd) == nd.ns # SvgNs \/ nd.name \in {"defs"}

\* one iteration of the walk over elem: an unwanted element is removed from
\* its parent when it has one, and the loop continues; otherwise its
\* namespaced attributes are deleted
VisitElem(t, i) ==
    IF Unwanted(t.node[i])
    THEN IF t.par[i] # NoParent THEN RemoveAll(t, {i}) ELSE t
    ELSE [t EXCEPT !.node[i].nsattr = FALSE]

RECURSIVE WalkList(_, _)
WalkList(t, elems) ==
    IF elems = << >> THEN t
    ELSE WalkList(VisitElem(t, Head(elems)), Tail(elems))

\* a walk that drops the element following a removed one, as iterating the
\* live tree while removing from it would
RECURSIVE WalkListSkipping(_, _)
WalkListSkipping(t, elems) ==
    IF elems = << >> THEN t
    ELSE LET i == Head(elems)
             gone == Unwanted(t.node[i]) /\ t.par[i] # NoParent
             rest == IF gone /\ Len(elems) > 1 THEN Tail(Tail(elems))
                     ELSE Tail(elems)
         IN WalkListSkipping(VisitElem(t, i), rest)

NsWalkSkipping(t) == WalkListSkipping(t, DocOrder({0} \cup Descendants(t)))

\* for elem in root.xpath(".|.//*"): the node list is taken before the loop.
\* etree.cleanup_namespaces, which follows, drops unused xmlns declarations
\* and changes no element or attribute.
NsWalk(t) == WalkList(t, DocOrder({0} \cup Descendants(t)))

\* for elem in root.xpath(".//defs"): an unprefixed XPath name test selects
\* elements in no namespace
RemoveDefs(t) ==
    RemoveAll(t, {i \in Descendants(t) :
                    t.node[i].ns = NoNs /\ t.node[i].name = "defs"})

\* root.xpath(".//*[local-name()='<type>'][contains(@<attr>, '#999')]")
GrayByStroke(t, type) ==
    {i \in Descendants(t) :
        t.node[i].name = type /\ Contains(t.node[i].stroke, Gray)}

GrayByStyle(t, type) ==
    {i \in Descendants(t) :
        t.node[i].name = type /\ Contains(t.node[i].style, Gray)}

\* the body of "for elem_type in (...)": the stroke query and its removals,
\* then the style query and its removals
RemoveGrayOf(t, type) ==
    LET t1 == RemoveAll(t, GrayByStroke(t, type))
    IN RemoveAll(t1, GrayByStyle(t1, type))

\* the stroke query alone
RemoveGrayStrokeOnly(t) ==
    LET t1 == RemoveAll(t, GrayByStroke(t, "g"))
    IN RemoveAll(t1, GrayByStroke(t1, "path"))

RemoveGray(t) == RemoveGrayOf(RemoveGrayOf(t, "g"), "path")

\* orphans whose parent is the root only ("./*" for ".//*")
OrphansTopLevel(t) ==
    {i \in Descendants(t) :
        t.node[i].name = "g" /\ ElemChildren(t, i) = {} /\ t.par[i] = 0}

\* root.xpath(".//*[local-name()='g'][not(*)]")
Orphans(t) ==
    {i \in Descendants(t) : t.node[i].name = "g" /\ ElemChildren(t, i) = {}}

\* for elem in orphans: parent.remove(elem)
OrphanPass(t) ==
    RemoveAll(t, {i \in Orphans(t) : t.par[i] # NoParent})

RECURSIVE OrphanLoop(_)
\* while True: ... if not orphans: break
OrphanLoop(t) == IF Orphans(t) = {} THEN t ELSE OrphanLoop(OrphanPass(t))

\* lines 192-243 as one function of the tree
StructuralFilter(t) ==
    OrphanLoop(RemoveGray(RemoveDefs(NsWalk(StripComments(t)))))

(***************************************************************************)
(* Geometry of process_svg: float(), the f-string, the four cases.         *)
(***************************************************************************)
IsDigits(s) == \A k \in 1..Len(s) : s[k] \in Digits

\* float(s) does not raise ValueError.  Exact for strings over digits, ".",
\* "%" and the unit letters m, p, x: <digits>[.<digits>] with at least one
\* digit.  (Signs, exponents, blanks, inf and nan need other characters.)
FloatOk(s) ==
    /\ s # None
    /\ \/ Len(s) > 0 /\ IsDigits(s)
       \/ \E d \in 1..Len(s) :
            /\ s[d] = "."
            /\ IsDigits(SubSeq(s, 1, d - 1))
            /\ IsDigits(SubSeq(s, d + 1, Len(s)))
            /\ Len(s) > 1

RECURSIVE StripLeadingZeros(_)
StripLeadingZeros(s) ==
    IF s = << >> THEN <<"0">>
    ELSE IF Head(s) = "0" THEN StripLeadingZeros(Tail(s)) ELSE s

RECURSIVE StripTrailingZeros(_)
StripTrailingZeros(s) ==
    IF s = << >> THEN <<"0">>
    ELSE IF s[Len(s)] = "0" THEN StripTrailingZeros(SubSeq(s, 1, Len(s) - 1))
    ELSE s

\* str(float(s)) for a string FloatOk accepts: the shortest decimal that
\* reads back, always with a fractional part ("24" gives "24.0")
FloatStr(s) ==
    LET dots == {d \in 1..Len(s) : s[d] = "."}
        d == IF dots = {} THEN Len(s) + 1 ELSE CHOOSE x \in dots : TRUE
    IN StripLeadingZeros(SubSeq(s, 1, d - 1)) \o <<".">>
       \o StripTrailingZeros(SubSeq(s, d + 1, Len(s)))

\* f"0 0 {float(width)} {float(height)}"
ViewBoxOf(width, height) ==
    <<"0", " ", "0", " ">> \o FloatStr(width) \o <<" ">> \o FloatStr(height)

\* a case analysis that lets a document without geometry through
GeomCaseDefaulting(t) ==
    IF ~(Truthy(t.width) /\ Truthy(t.height)) THEN "keep"
    ELSE IF ~Truthy(t.viewBox) THEN
        IF FloatOk(t.width) /\ FloatOk(t.height) THEN "synthesize"
        ELSE "unparsable"
    ELSE "keep"

\* the branch process_svg takes at lines 250-268
GeomCase(t) ==
    IF ~(Truthy(t.width) /\ Truthy(t.height)) THEN
        IF ~Truthy(t.viewBox) THEN "missing" ELSE "keep"
    ELSE IF ~Truthy(t.viewBox) THEN
        IF FloatOk(t.width) /\ FloatOk(t.height) THEN "synthesize"
        ELSE "unparsable"
    ELSE "keep"

\* a size overwrite that leaves a size already present alone
SetSizeIfAbsent(t) ==
    [t EXCEPT !.width = IF Truthy(@) THEN @ ELSE TenMm,
              !.height = IF Truthy(@) THEN @ ELSE TenMm]

\* root.set("width", "10mm"); root.set("height", "10mm")
SetSize(t) == [t EXCEPT !.width = TenMm, !.height = TenMm]

\* the tree process_svg writes, for a tree whose GeomCase is not a failure
Normalized(t) ==
    SetSize(IF GeomCase(t) = "synthesize"
            THEN [t EXCEPT !.viewBox = ViewBoxOf(t.width, t.height)]
            ELSE t)

(***************************************************************************)
(* process_wikimedia: the reference pattern, the Symbol of a page, the     *)
(* sort of the result.                                                     *)
(***************************************************************************)
UpperCase == {"A", "B", "C", "D", "E", "F", "G", "H", "I", "J", "K", "L", "M",
              "N", "O", "P", "Q", "R", "S", "T", "U", "V", "W", "X", "Y", "Z"}

RefPrefix == <<"I", "S", "O", " ", "7", "0", "0", "0", " ", "-", " ",
               "R", "e", "f", "-", "N", "o", " ">>

\* (\d+[A-Z]?) matches the whole of s
IsRef(s) ==
    /\ Len(s) > 0
    /\ \/ IsDigits(s)
       \/ /\ Len(s) > 1
          /\ IsDigits(SubSeq(s, 1, Len(s) - 1))
          /\ s[Len(s)] \in UpperCase

\* name without the one trailing newline that "$" lets through
BeforeDollar(name) ==
    IF Len(name) > 0 /\ name[Len(name)] = "\n"
    THEN SubSeq(name, 1, Len(name) - 1) ELSE name

\* ref_pattern.match(obj_name) is not None
RefMatches(name) ==
    LET body == BeforeDollar(name)
    IN /\ Len(body) > Len(RefPrefix)
       /\ SubSeq(body, 1, Len(RefPrefix)) = RefPrefix
       /\ IsRef(SubSeq(body, Len(RefPrefix) + 1, Len(body)))

\* m.group(1).strip()
RefOf(name) ==
    LET body == BeforeDollar(name)
    IN SubSeq(body, Len(RefPrefix) + 1, Len(body))

\* the page passes both filters of the loop
Accepted(page) == page.mime = "image/svg+xml" /\ RefMatches(page.ObjectName)

\* Symbol(reference=ref, title=..., ...); LicenseUrl is a list holding the
\* value when extmetadata has the key
MkSymbol(page) ==
    [reference |-> RefOf(page.ObjectName),
     title |-> page.title,
     user |-> page.user,
     userid |-> page.userid,
     url |-> page.url,
     license |-> page.LicenseShortName,
     license_url |-> IF page.LicenseUrl = << >> THEN "" ELSE page.LicenseUrl[1],
     description |-> page.ImageDescription,
     description_url |-> page.descriptionurl]

\* a fold that keeps the record already held for the reference
PutFirstWins(d, sym) ==
    IF sym.reference \in DOMAIN d THEN d
    ELSE [r \in DOMAIN d \cup {sym.reference} |->
            IF r = sym.reference THEN sym ELSE d[r]]

\* symbols[ref] = new
Put(d, sym) ==
    [r \in DOMAIN d \cup {sym.reference} |->
        IF r = sym.reference THEN sym ELSE d[r]]

\* ref in symbols and symbols[ref] != new
Collides(d, sym) == sym.reference \in DOMAIN d /\ d[sym.reference] # sym

CharOrder == <<"0", "1", "2", "3", "4", "5", "6", "7", "8", "9",
               "A", "B", "C", "D", "E", "F", "G", "H", "I", "J", "K", "L", "M",
               "N", "O", "P", "Q", "R", "S", "T", "U", "V", "W", "X", "Y", "Z">>

Ord(c) == CHOOSE k \in 1..Len(CharOrder) : CharOrder[k] = c

RECURSIVE StrLess(_, _)
\* a < b for Python strings of reference characters
StrLess(a, b) ==
    IF b = << >> THEN FALSE
    ELSE IF a = << >> THEN TRUE
    ELSE IF Head(a) = Head(b) THEN StrLess(Tail(a), Tail(b))
    ELSE Ord(Head(a)) < Ord(Head(b))

RECURSIVE SortedRefs(_)
SortedRefs(R) ==
    IF R = {} THEN << >>
    ELSE LET m == CHOOSE x \in R : \A y \in R \ {x} : StrLess(x, y)
         IN <<m>> \o SortedRefs(R \ {m})

\* sorted(symbols.values(), key=lambda s: s.reference)
SortedSymbols(d) ==
    LET refs == SortedRefs(DOMAIN d)
    IN [k \in 1..Len(refs) |-> d[refs[k]]]

(***************************************************************************)
(* Files of sources/raw and sources/processed, keyed by reference          *)
(* (get_svg_name is injective), and the state of main.                     *)
(***************************************************************************)
NoFile == [state |-> "absent"]

\* a file whose bytes are not well-formed XML
Malformed == [state |-> "malformed"]

Xml(t) == [state |-> "xml", doc |-> t]

Exists(f) == f.state # "absent"

NoTree == [state |-> "none"]

\* get_svg_name(symbol), as the key of the two directories
CurRef == symlist[sidx].reference

Logged(level, event, arg) == Append(log, [level |-> level, event |-> event, arg |-> arg])

\* the early return taken only when reprocessing is forced
SkipsProcessedInverted(ref) == force /\ Exists(processed[ref])

\* not force_process and (PROCESSED_SVG / name).exists()
SkipsProcessed(ref) == ~force /\ Exists(processed[ref])

(***************************************************************************)
(* process_wikimedia, one page per step.                                   *)
(***************************************************************************)
FoldSkipMime ==
    /\ pc = "fold" /\ pidx <= Len(pages)
    /\ pages[pidx].mime # "image/svg+xml"
    /\ log' = Logged("debug", "mime", pages[pidx].title)
    /\ pidx' = pidx + 1
    /\ skipped' = skipped + 1
    /\ UNCHANGED <<pages, force, raw, processed, pc, symbols, symlist, sidx, tree,
                   written>>

FoldSkipName ==
    /\ pc = "fold" /\ pidx <= Len(pages)
    /\ pages[pidx].mime = "image/svg+xml"
    /\ ~RefMatches(pages[pidx].ObjectName)
    /\ log' = Logged("debug", "name", pages[pidx].title)
    /\ pidx' = pidx + 1
    /\ skipped' = skipped + 1
    /\ UNCHANGED <<pages, force, raw, processed, pc, symbols, symlist, sidx, tree,
                   written>>

FoldAccept ==
    /\ pc = "fold" /\ pidx <= Len(pages)
    /\ pages[pidx].mime = "image/svg+xml"
    /\ RefMatches(pages[pidx].ObjectName)
    /\ LET new == MkSymbol(pages[pidx])
       IN /\ log' = IF Collides(symbols, new)
                    THEN Logged("warning", "duplicate", new.reference)
                    ELSE log
          /\ symbols' = Put(symbols, new)
    /\ pidx' = pidx + 1
    /\ UNCHANGED <<pages, force, raw, processed, pc, skipped, symlist, sidx, tree,
                   written>>

\* the end of the loop, the info line and the sorted result; main goes on
\* to its own loop
FoldReturn ==
    /\ pc = "fold" /\ pidx > Len(pages)
    /\ log' = IF skipped # 0
              THEN Logged("info", "skipped", <<>>) ELSE log
    /\ symlist' = SortedSymbols(symbols)
    /\ sidx' = 1
    /\ pc' = "loop"
    /\ UNCHANGED <<pages, force, raw, processed, pidx, symbols, skipped, tree, written>>

(***************************************************************************)
(* main's loop over the symbols.                                           *)
(***************************************************************************)
MainCall ==
    /\ pc = "loop" /\ sidx <= Len(symlist)
    /\ pc' = "entry"
    /\ UNCHANGED <<pages, force, raw, processed, pidx, symbols, skipped, symlist, sidx,
                   tree, log, written>>

MainDone ==
    /\ pc = "loop" /\ sidx > Len(symlist)
    /\ pc' = "done"
    /\ UNCHANGED <<pages, force, raw, processed, pidx, symbols, skipped, symlist, sidx,
                   tree, log, written>>

(***************************************************************************)
(* process_svg.                                                            *)
(***************************************************************************)
\* process_svg returns to main's loop, which takes the next symbol
Return == pc' = "loop" /\ sidx' = sidx + 1 /\ tree' = NoTree

SvgSkipProcessed ==
    /\ pc = "entry"
    /\ SkipsProcessed(CurRef)
    /\ Return
    /\ UNCHANGED <<pages, force, raw, processed, pidx, symbols, skipped, symlist, log, written>>

SvgSkipMissing ==
    /\ pc = "entry"
    /\ ~SkipsProcessed(CurRef)
    /\ ~Exists(raw[CurRef])
    /\ log' = Logged("debug", "not downloaded", CurRef)
    /\ Return
    /\ UNCHANGED <<pages, force, raw, processed, pidx, symbols, skipped, symlist, written>>

\* etree.parse of a well-formed file
SvgParse ==
    /\ pc = "entry"
    /\ ~SkipsProcessed(CurRef)
    /\ raw[CurRef].state = "xml"
    /\ tree' = raw[CurRef].doc
    /\ pc' = "comments"
    /\ UNCHANGED <<pages, force, raw, processed, pidx, symbols, skipped, symlist, sidx,
                   log, written>>

\* etree.parse raises XMLSyntaxError; neither process_svg nor main has a
\* handler, so the exception ends main
SvgParseError ==
    /\ pc = "entry"
    /\ ~SkipsProcessed(CurRef)
    /\ raw[CurRef].state = "malformed"
    /\ pc' = "crashed"
    /\ UNCHANGED <<pages, force, raw, processed, pidx, symbols, skipped, symlist, sidx,
                   tree, log, written>>

SvgStripComments ==
    /\ pc = "comments"
    /\ tree' = StripComments(tree)
    /\ pc' = "nswalk"
    /\ UNCHANGED <<pages, force, raw, processed, pidx, symbols, skipped, symlist, sidx,
                   log, written>>

SvgNsWalk ==
    /\ pc = "nswalk"
    /\ tree' = NsWalk(tree)
    /\ pc' = "defs"
    /\ UNCHANGED <<pages, force, raw, processed, pidx, symbols, skipped, symlist, sidx,
                   log, written>>

SvgRemoveDefs ==
    /\ pc = "defs"
    /\ tree' = RemoveDefs(tree)
    /\ pc' = "gray"
    /\ UNCHANGED <<pages, force, raw, processed, pidx, symbols, skipped, symlist, sidx,
                   log, written>>

SvgRemoveGray ==
    /\ pc = "gray"
    /\ tree' = RemoveGray(tree)
    /\ pc' = "orphans"
    /\ UNCHANGED <<pages, force, raw, processed, pidx, symbols, skipped, symlist, sidx,
                   log, written>>

\* one turn of the while loop that finds orphans
SvgOrphanPass ==
    /\ pc = "orphans"
    /\ Orphans(tree) # {}
    /\ tree' = OrphanPass(tree)
    /\ UNCHANGED <<pages, force, raw, processed, pc, pidx, symbols, skipped, symlist, sidx,
                   log, written>>

\* if not orphans: break
SvgOrphanBreak ==
    /\ pc = "orphans"
    /\ Orphans(tree) = {}
    /\ pc' = "geometry"
    /\ UNCHANGED <<pages, force, raw, processed, pidx, symbols, skipped, symlist, sidx,
                   tree, log, written>>

SvgGeomMissing ==
    /\ pc = "geometry"
    /\ GeomCase(tree) = "missing"
    /\ log' = Logged("error", "no geometry", CurRef)
    /\ Return
    /\ UNCHANGED <<pages, force, raw, processed, pidx, symbols, skipped, symlist, written>>

\* float() raises ValueError, which the except clause logs
SvgGeomUnparsable ==
    /\ pc = "geometry"
    /\ GeomCase(tree) = "unparsable"
    /\ log' = Logged("error", "unparsable size", CurRef)
    /\ Return
    /\ UNCHANGED <<pages, force, raw, processed, pidx, symbols, skipped, symlist, written>>

\* the viewBox is kept or synthesized, the size is set and the tree written
SvgWrite ==
    /\ pc = "geometry"
    /\ GeomCase(tree) \in {"keep", "synthesize"}
    /\ processed' = [processed EXCEPT ![CurRef] = Xml(Normalized(tree))]
    /\ written' = written \cup {CurRef}
    /\ Return
    /\ UNCHANGED <<pages, force, raw, pidx, symbols, skipped, symlist, log>>

Next ==
    \/ FoldSkipMime \/ FoldSkipName \/ FoldAccept \/ FoldReturn
    \/ MainCall \/ MainDone
    \/ SvgSkipProcessed \/ SvgSkipMissing \/ SvgParse \/ SvgParseError
    \/ SvgStripComments \/ SvgNsWalk \/ SvgRemoveDefs \/ SvgRemoveGray
    \/ SvgOrphanPass \/ SvgOrphanBreak
    \/ SvgGeomMissing \/ SvgGeomUnparsable \/ SvgWrite

(***************************************************************************)
(* Inputs: documents, pages, directory contents.                           *)
(***************************************************************************)
Elem(ns, name, stroke, style, nsattr) ==
    [kind |-> "elem", ns |-> ns, name |-> name, stroke |-> stroke,
     style |-> style, nsattr |-> nsattr]

Comment ==
    [kind |-> "comment", ns |-> NoNs, name |-> "#comment", stroke |-> None,
     style |-> None, nsattr |-> FALSE]

PlainG == Elem(SvgNs, "g", None, None, FALSE)

\* a path with a namespaced attribute, as sodipodi:nodetypes
AttrPath == Elem(SvgNs, "path", None, None, TRUE)

SvgDefs == Elem(SvgNs, "defs", None, None, FALSE)

InkscapeG == Elem(InkscapeNs, "g", None, None, TRUE)

\* <defs> in no namespace, the element the ".//defs" query names
BareDefs == Elem(NoNs, "defs", None, None, FALSE)

GrayStylePath == Elem(SvgNs, "path", None, <<"s", "t", "r", "o", "k", "e", ":", "#", "9", "9", "9", "9", "9", "9">>, FALSE)

TreeKinds ==
    {PlainG, AttrPath, SvgDefs, BareDefs, InkscapeG, Comment, GrayStylePath}

GrayKinds ==
    {PlainG,
     Elem(SvgNs, "g", <<"#", "9", "9", "9", "9", "9", "9">>, None, FALSE),
     Elem(SvgNs, "g", None, <<"f", "i", "l", "l", ":", "n", "o", "n", "e", ";", "s", "t", "r", "o", "k", "e", ":", "#", "9", "9", "9">>, FALSE),
     GrayStylePath,
     Elem(SvgNs, "path", None, <<"s", "t", "r", "o", "k", "e", ":", "#", "8", "8", "8", "8", "8", "8">>, FALSE),
     Elem(SvgNs, "path", <<"#", "9", "9", "9">>, None, FALSE),
     Elem(SvgNs, "rect", <<"#", "9", "9", "9", "9", "9", "9">>, <<"f", "i", "l", "l", ":", "n", "o", "n", "e", ";", "s", "t", "r", "o", "k", "e", ":", "#", "9", "9", "9">>, FALSE)}

SvgRoot == Elem(SvgNs, "svg", None, None, TRUE)

\* <svg> without xmlns, carrying a namespaced attribute
BareRoot == Elem(NoNs, "svg", None, None, TRUE)

GRoot == Elem(SvgNs, "g", None, None, FALSE)

TreeRoots == {SvgRoot, BareRoot, GRoot}

VB48 == <<"0", " ", "0", " ", "4", "8", " ", "4", "8">>

ViewBoxOnly == [width |-> None, height |-> None, viewBox |-> VB48]

RECURSIVE Ancestors(_, _)
\* i and the nodes above it
Ancestors(par, i) ==
    IF i = 0 \/ par[i] = NoParent THEN {i} ELSE {i} \cup Ancestors(par, par[i])

\* the parent functions of the ordered trees of n + 1 nodes numbered in
\* document order
Shapes(n) ==
    {par \in [0..n -> -1..(n - 1)] :
        /\ par[0] = NoParent
        /\ \A i \in 1..n : par[i] \in 0..(i - 1) /\ par[i] \in Ancestors(par, i - 1)}

\* Shapes(n) for every n of the model
ShapeTable == [n \in 0..MaxNodes |-> Shapes(n)]

\* the document of shape par with root r and nodes f below it
Document(n, r, f, par, g) ==
    [n |-> n, node |-> [i \in 0..n |-> IF i = 0 THEN r ELSE f[i]], par |-> par,
     width |-> g.width, height |-> g.height, viewBox |-> g.viewBox]

Leaf(root, width, height, viewBox) ==
    [n |-> 0, node |-> [i \in {0} |-> root], par |-> [i \in {0} |-> NoParent],
     width |-> width, height |-> height, viewBox |-> viewBox]

\* root > (g > (g > comment)), path(gray), inkscape:g, with a viewBox
CoreDoc ==
    [n |-> 5,
     node |-> [i \in 0..5 |-> <<SvgRoot, PlainG, PlainG, Comment,
                                GrayStylePath, InkscapeG>>[i + 1]],
     par |-> [i \in 0..5 |-> <<NoParent, 0, 1, 2, 0, 0>>[i + 1]],
     width |-> <<"2", "4">>, height |-> <<"2", "4">>, viewBox |-> VB48]

Page(title, mime, objectName, license, licenseUrl) ==
    [title |-> title, mime |-> mime, user |-> "Uploader", userid |-> 7,
     url |-> "https://upload.wikimedia.org/" \o title,
     descriptionurl |-> "https://commons.wikimedia.org/wiki/" \o title,
     ObjectName |-> objectName, LicenseShortName |-> license,
     LicenseUrl |-> licenseUrl, ImageDescription |-> "ISO 7000 symbol"]

Ref1 == <<"1">>

Ref2A == <<"2", "A">>

Ref10 == <<"1", "0">>

AllRefs == {Ref1, Ref2A, Ref10}

Page1 ==
    Page("File:1.svg", "image/svg+xml", RefPrefix \o Ref1, "CC0", << >>)

\* the same reference under another license
Page1BySa ==
    Page("File:1.svg", "image/svg+xml", RefPrefix \o Ref1, "CC BY-SA 4.0",
         <<"https://creativecommons.org/licenses/by-sa/4.0">>)

\* Page1 with a newline after the reference
Page1Newline ==
    Page("File:1.svg", "image/svg+xml", RefPrefix \o Ref1 \o <<"\n">>, "CC0", << >>)

Page2A ==
    Page("File:2A.svg", "image/svg+xml", RefPrefix \o Ref2A, "CC0", << >>)

Page10 ==
    Page("File:10.svg", "image/svg+xml", RefPrefix \o Ref10, "CC0", << >>)

PagePng ==
    Page("File:2A.png", "image/png", RefPrefix \o Ref2A, "CC0", << >>)

\* a lower-case suffix, which [A-Z]? rejects
PageLower ==
    Page("File:1a.svg", "image/svg+xml", RefPrefix \o <<"1", "a">>, "CC0", << >>)

PageKinds == {Page1, Page1BySa, Page1Newline, Page2A, PagePng, PageLower}

SeqsUpTo(S, max) == UNION {[1..k -> S] : k \in 0..max}

\* an output artifact left by an earlier run
OldOutput == Xml(Leaf(SvgRoot, TenMm, TenMm, VB48))

NoFiles == [r \in AllRefs |-> NoFile]

InitRun ==
    /\ pc = "fold" /\ pidx = 1 /\ symbols = << >> /\ skipped = 0
    /\ symlist = << >> /\ sidx = 1 /\ tree = NoTree /\ log = << >>
    /\ written = {}

NoGeomDoc == Leaf(SvgRoot, None, None, None)

PxDoc == Leaf(SvgRoot, <<"2", "4", "p", "x">>, <<"2", "4", "p", "x">>, None)

PlainSizeDoc == Leaf(SvgRoot, <<"2", "4">>, <<"2", "4">>, None)

\* a run that takes every branch of the program
InitCore ==
    /\ pages = <<PagePng, PageLower, Page1, Page1BySa, Page2A>>
    /\ force \in BOOLEAN
    /\ \E f1 \in {Xml(CoreDoc), Malformed, NoFile}, f2 \in {Xml(NoGeomDoc), Xml(PxDoc)} :
          raw = [r \in AllRefs |-> IF r = Ref1 THEN f1
                                  ELSE IF r = Ref2A THEN f2 ELSE NoFile]
    /\ \E o1 \in {NoFile, OldOutput} :
          processed = [r \in AllRefs |-> IF r = Ref1 THEN o1 ELSE NoFile]

BatchPages == <<Page2A, Page10, Page1>>

BatchRefs == {RefOf(BatchPages[k].ObjectName) : k \in 1..MaxBatch}

BatchFiles ==
    {NoFile, Malformed, Xml(CoreDoc), Xml(NoGeomDoc), Xml(PxDoc), Xml(PlainSizeDoc)}

\* batches of MaxBatch symbols: every raw file and every earlier output
InitBatch ==
    /\ pages = SubSeq(BatchPages, 1, MaxBatch)
    /\ force \in BOOLEAN
    /\ \E fs \in [BatchRefs -> BatchFiles] :
          raw = [r \in AllRefs |-> IF r \in BatchRefs THEN fs[r] ELSE NoFile]
    /\ \E os \in [BatchRefs -> {NoFile, OldOutput}] :
          processed = [r \in AllRefs |-> IF r \in BatchRefs THEN os[r] ELSE NoFile]

\* one symbol, processed for the first time, whose raw file is any document
\* of at most MaxNodes nodes below the root; a comment has no children
InitOneDoc(roots, kinds, g) ==
    /\ pages = <<Page1>>
    /\ force = FALSE
    /\ \E n \in 0..MaxNodes :
          \E r \in roots, f \in [1..n -> kinds], par \in ShapeTable[n] :
              /\ \A i \in 1..n :
                    IF par[i] = 0 THEN TRUE ELSE f[par[i]].kind = "elem"
              /\ raw = [NoFiles EXCEPT ![Ref1] = Xml(Document(n, r, f, par, g))]
    /\ processed = NoFiles

InitTree == InitOneDoc(TreeRoots, TreeKinds, ViewBoxOnly)

InitGray == InitOneDoc({SvgRoot}, GrayKinds, ViewBoxOnly)

Widths == {None, EmptyStr, <<"2", "4">>, <<"2", "4", "p", "x">>, <<"2", ".", "5", "0">>, <<"1", "0", "0", "%">>}

Heights == {None, EmptyStr, <<"2", "4">>, <<"2", "4", "p", "x">>, <<"0", "4", "8">>}

ViewBoxes == {None, EmptyStr, VB48}

\* one symbol and every geometry of its root, with and without an earlier
\* output and the force flag
InitGeom ==
    /\ pages = <<Page1>>
    /\ force \in BOOLEAN
    /\ \E r \in {SvgRoot, BareRoot}, w \in Widths, h \in Heights, v \in ViewBoxes :
          raw = [NoFiles EXCEPT ![Ref1] = Xml(Leaf(r, w, h, v))]
    /\ \E o1 \in {NoFile, OldOutput} : processed = [NoFiles EXCEPT ![Ref1] = o1]

\* every sequence of at most MaxPages pages
InitWiki ==
    /\ pages \in SeqsUpTo(PageKinds, MaxPages)
    /\ force = FALSE
    /\ raw = [NoFiles EXCEPT ![Ref1] = Xml(CoreDoc)]
    /\ processed = NoFiles

Init == (InitCore \/ InitBatch) /\ InitRun

Spec == Init /\ [][Next]_vars

InitTreeSpec == (InitCore \/ InitTree) /\ InitRun

SpecTree == InitTreeSpec /\ [][Next]_vars

InitGraySpec == (InitCore \/ InitGray) /\ InitRun

SpecGray == InitGraySpec /\ [][Next]_vars

InitGeomSpec == (InitCore \/ InitGeom) /\ InitRun

SpecGeom == InitGeomSpec /\ [][Next]_vars

InitWikiSpec == (InitCore \/ InitWiki) /\ InitRun

SpecWiki == InitWikiSpec /\ [][Next]_vars

(***************************************************************************)
(* Properties.                                                             *)
(***************************************************************************)
\* main has stopped, by returning or by an exception leaving it
Stopped == pc \in {"done", "crashed"}

\* C1: a failure of one symbol is contained to it: when main stops, its
\* loop has taken every symbol of the batch, so every symbol after a failing
\* one was processed and the batch ran to its end.
C1_FailureContained == Stopped => sidx > Len(symlist)

\* C9: when the output of the current symbol exists and reprocessing is not
\* forced, process_svg returns at once: no output is written or changed,
\* nothing is logged and nothing is raised, whatever the raw file is.
C9_ExistingOutputUntouched ==
    [][(pc = "entry" /\ ~force /\ Exists(processed[CurRef]))
        => /\ processed' = processed
           /\ written' = written
           /\ log' = log
           /\ pc' = "loop" /\ sidx' = sidx + 1]_vars

\* C9 witness: an unforced batch ran to its end over a symbol whose output
\* existed and whose raw file is malformed, and one whose raw file is absent
C9_Witness ==
    /\ pc = "done" /\ ~force
    /\ \E k \in 1..Len(symlist) :
          /\ raw[symlist[k].reference] = Malformed
          /\ processed[symlist[k].reference] = OldOutput
    /\ \E k \in 1..Len(symlist) :
          /\ raw[symlist[k].reference] = NoFile
          /\ processed[symlist[k].reference] = OldOutput

AcceptedIdx == {k \in 1..Len(pages) : Accepted(pages[k])}

PageRef(k) == RefOf(pages[k].ObjectName)

\* the accepted pages before page k that have its reference
Earlier(k) == {j \in AcceptedIdx : j < k /\ PageRef(j) = PageRef(k)}

Latest(S) == CHOOSE j \in S : \A i \in S : i <= j

\* page k is accepted and its record differs from the one held when it comes
WarnsAt(k) ==
    /\ k \in AcceptedIdx
    /\ Earlier(k) # {}
    /\ MkSymbol(pages[Latest(Earlier(k))]) # MkSymbol(pages[k])

RECURSIVE WarnedRefs(_)
\* the references of the pages 1..k that warn, in page order
WarnedRefs(k) ==
    IF k = 0 THEN << >>
    ELSE IF WarnsAt(k) THEN Append(WarnedRefs(k - 1), PageRef(k))
    ELSE WarnedRefs(k - 1)

IsWarning(e) == e.level = "warning"

RECURSIVE Args(_)
Args(entries) ==
    IF entries = << >> THEN << >> ELSE <<Head(entries).arg>> \o Args(Tail(entries))

\* C10: the result of process_wikimedia holds exactly one Symbol for each
\* reference of an accepted page and nothing else, that Symbol is the record
\* of the last accepted page with the reference, and the warnings logged are
\* exactly those of the pages whose record differs from the record held.
C10_LastWriteWins ==
    pc # "fold" =>
        /\ \A k \in AcceptedIdx :
              \E i \in 1..Len(symlist) :
                  /\ symlist[i].reference = PageRef(k)
                  /\ symlist[i] =
                        MkSymbol(pages[Latest({j \in AcceptedIdx : PageRef(j) = PageRef(k)})])
        /\ \A i \in 1..Len(symlist) :
              \E k \in AcceptedIdx : symlist[i].reference = PageRef(k)
        /\ \A i, j \in 1..Len(symlist) :
              symlist[i].reference = symlist[j].reference => i = j
        /\ Args(SelectSeq(log, IsWarning)) = WarnedRefs(Len(pages))

\* C10 witness: the fold has met an equal record (no warning) and then a
\* differing one (a warning), and the later license is the one held
C10_Witness ==
    /\ pc = "done"
    /\ pages = <<Page1, Page1Newline, Page1BySa>>
    /\ Len(symlist) = 1 /\ symlist[1].license = "CC BY-SA 4.0"
    /\ Args(SelectSeq(log, IsWarning)) = <<Ref1>>

\* the document process_svg was given for the current symbol
Input == raw[CurRef].doc

\* the output artifact of the current symbol after the step
Output == processed'[CurRef].doc

\* the step wrote the output of the current symbol and returned
Wrote ==
    /\ written' = written \cup {CurRef}
    /\ processed'[CurRef].state = "xml"
    /\ pc' = "loop" /\ sidx' = sidx + 1

\* C2 as stated: whenever the root has a viewBox attribute, whatever its
\* value, the output keeps it and has width and height "10mm".
C2_AnyViewBoxKept ==
    [][(pc = "geometry" /\ Input.viewBox # None)
        => /\ Wrote
           /\ Output.viewBox = Input.viewBox
           /\ Output.width = TenMm /\ Output.height = TenMm]_vars

\* C2, amended: whenever the root has a non-empty viewBox (width and height
\* absent, partly present or both present), process_svg writes an output
\* whose viewBox is the input viewBox and whose width and height are "10mm".
C2_ViewBoxKept ==
    [][(pc = "geometry" /\ Input.viewBox # None /\ Input.viewBox # EmptyStr)
        => /\ Wrote
           /\ Output.viewBox = Input.viewBox
           /\ Output.width = TenMm /\ Output.height = TenMm]_vars

\* C2 witness: a document with a viewBox, a width and no height was written
\* with the viewBox kept and both sizes set
C2_Witness ==
    /\ pc = "done" /\ Ref1 \in written
    /\ raw[Ref1].doc.viewBox = VB48
    /\ raw[Ref1].doc.width = <<"2", "4", "p", "x">> /\ raw[Ref1].doc.height = None
    /\ processed[Ref1].doc.viewBox = VB48
    /\ processed[Ref1].doc.width = TenMm /\ processed[Ref1].doc.height = TenMm

Letters == {"m", "p", "x"}

\* the leading number of s: its characters up to the unit suffix
NumericPart(s) ==
    LET rest == {k \in 1..Len(s) : s[k] \in Letters}
    IN IF rest = {} THEN s
       ELSE SubSeq(s, 1, (CHOOSE k \in rest : \A j \in rest : k <= j) - 1)

\* s is a number, or a number followed by a unit of letters
IsNumberWithUnit(s) ==
    /\ s # None
    /\ \A k \in 1..Len(s) : s[k] \in Digits \cup {"."} \cup Letters
    /\ FloatOk(NumericPart(s))
    /\ \A k \in (Len(NumericPart(s)) + 1)..Len(s) : s[k] \in Letters

\* C3: whenever the root has no viewBox and a width and a height that are
\* numbers with an optional unit, process_svg writes an output whose viewBox
\* is "0 0 W H", W and H being the numbers as written without their unit,
\* and whose width and height are "10mm".
C3_ViewBoxFromSize ==
    [][(/\ pc = "geometry" /\ Input.viewBox = None
        /\ IsNumberWithUnit(Input.width) /\ IsNumberWithUnit(Input.height))
        => /\ Wrote
           /\ Output.viewBox = <<"0", " ", "0", " ">> \o NumericPart(Input.width)
                                 \o <<" ">> \o NumericPart(Input.height)
           /\ Output.width = TenMm /\ Output.height = TenMm]_vars

Attached(t) == {i \in 0..t.n : InTree(t, i)}

\* C5: in every output written, every element, the root included, is in the
\* SVG namespace and carries no namespaced attribute.
C5_OnlySvgNamespace ==
    \A r \in written :
        LET t == processed[r].doc
        IN \A i \in Attached(t) :
              IsElem(t, i) => t.node[i].ns = SvgNs /\ ~t.node[i].nsattr

\* node i of t is a g element none of whose children is an element
ChildlessG(t, i) ==
    /\ t.node[i].kind = "elem" /\ t.node[i].name = "g"
    /\ ~\E j \in 1..t.n : t.par[j] = i /\ t.node[j].kind = "elem"

\* C6 as stated: every turn of the orphan loop either ends it, and then no
\* g without element children is left anywhere in the tree, or removes at
\* least one node (so the loop terminates).
C6_NoChildlessGAnywhere ==
    [][pc = "orphans"
        => \/ /\ pc' = "geometry"
              /\ \A i \in Attached(tree') : ~ChildlessG(tree', i)
           \/ /\ pc' = "orphans"
              /\ Cardinality(Attached(tree')) < Cardinality(Attached(tree))]_vars

\* C6, amended: every turn of the orphan loop either ends it, and then no
\* g without element children is left below the root at any depth, or
\* removes at least one node (so the loop terminates on every finite tree).
C6_NoChildlessGBelowRoot ==
    [][pc = "orphans"
        => \/ /\ pc' = "geometry"
              /\ \A i \in Attached(tree') \ {0} : ~ChildlessG(tree', i)
           \/ /\ pc' = "orphans"
              /\ Cardinality(Attached(tree')) < Cardinality(Attached(tree))]_vars

\* C6 witness: the loop has ended on a document that nested three empty g
\* elements, and none of them is left
C6_Witness ==
    /\ pc = "geometry"
    /\ Input.n = 3
    /\ \A i \in 1..3 : Input.node[i] = PlainG /\ Input.par[i] = i - 1
    /\ Attached(tree) = {0}

\* node i of t is a g or path whose stroke or style contains "#999"
GrayGOrPath(t, i) ==
    /\ t.node[i].name \in {"g", "path"}
    /\ \/ Contains(t.node[i].stroke, Gray)
       \/ Contains(t.node[i].style, Gray)

\* C7: the gray-stroke step removes exactly the g and path elements below
\* the root whose stroke or style contains "#999", each with its subtree: an
\* element below the root is gone after the step if and only if it or one of
\* its ancestors below the root is such an element.
C7_GrayRemoved ==
    [][pc = "gray"
        => \A i \in Attached(tree) \ {0} :
              IsElem(tree, i) =>
                  (InTree(tree', i) <=>
                      ~\E a \in Ancestors(tree.par, i) \ {0} : GrayGOrPath(tree, a))]_vars

\* C7 witness: after the step a path styled stroke:#888888 and a rect with a
\* gray stroke are still below the root, and a path styled stroke:#999999
\* has been removed from it
C7_Witness ==
    /\ pc = "orphans"
    /\ \E i, j, k \in 1..tree.n :
          /\ tree.node[i] = Elem(SvgNs, "path", None, <<"s", "t", "r", "o", "k", "e", ":", "#", "8", "8", "8", "8", "8", "8">>, FALSE)
          /\ InTree(tree, i)
          /\ tree.node[j] = Elem(SvgNs, "rect", <<"#", "9", "9", "9", "9", "9", "9">>, <<"f", "i", "l", "l", ":", "n", "o", "n", "e", ";", "s", "t", "r", "o", "k", "e", ":", "#", "9", "9", "9">>, FALSE)
          /\ InTree(tree, j)
          /\ tree.node[k] = GrayStylePath
          /\ Input.par[k] = 0 /\ tree.par[k] = NoParent

\* C8: the structural filter is idempotent: applied to the tree the filter
\* steps of process_svg have produced, it changes nothing.
C8_FilterIdempotent == pc = "geometry" => StructuralFilter(tree) = tree

\* C8 witness: the filter has run on a document with a comment, a foreign
\* element and a gray path, and has removed all three
C8_Witness ==
    /\ pc = "geometry"
    /\ Input.n = 3
    /\ \E i, j, k \in 1..3 :
          /\ Input.node[i] = Comment /\ Input.node[j] = InkscapeG
          /\ Input.node[k] = GrayStylePath
    /\ Attached(tree) = {0}

====
